---- MODULE Spec2Model ----
(***************************************************************************)
(* Model of static/app.js: the light/dark theme controller.                *)
(*                                                                         *)
(* The script is one IIFE.  Its head resolves the initial theme from       *)
(* localStorage["theme"], falling back on the prefers-color-scheme media   *)
(* query and then on "dark", and adds the class "light" to document.body   *)
(* when the result is "light".  Its tail looks up #theme-toggle and, when  *)
(* the element exists, registers a click listener that toggles the class   *)
(* and stores the resulting theme.                                         *)
(*                                                                         *)
(* A storage entry is modelled as a sequence of length 0 (getItem returns  *)
(* null) or 1 (the stored string).  Every browsing context (page) has its  *)
(* own document; all of them share the one storage entry and the OS        *)
(* signal.  A freshly loaded document has no "light" class on its body:    *)
(* the script is the only code that adds it.                               *)
(***************************************************************************)
EXTENDS Naturals, Sequences, FiniteSets, TLC

\* ---------------------------------------------------------------- bounds
MaxClicks == 3      \* click events dispatched per document
MaxLoads  == 2      \* documents loaded per browsing context
MaxRuns   == 2      \* executions of the script in one document (SpecRerun)

\* ---------------------------------------------------------------- domain
Pages      == {"A", "B"}     \* browsing contexts sharing the storage
SinglePage == {"A"}          \* the contexts that act under Spec

None    == << >>             \* localStorage.getItem(key) === null
Some(v) == << v >>           \* localStorage.getItem(key) === v

\* strings the entry may hold when the first page loads: the two the program
\* writes, the empty string (falsy in JS) and a foreign string
StoredStrings == {"light", "dark", "", "blue"}
StorageValues == {None} \cup {Some(v) : v \in StoredStrings}

\* window.matchMedia: missing, or present with (prefers-color-scheme: light)
\* matching or not
OsSignals == {"unavailable", "light", "dark"}

VARIABLES
  storage,    \* localStorage entry under key "theme"
  os,         \* the OS signal as the browser exposes it
  pc,         \* per page: "closed", "loading" (script not yet run), "head"
              \* (between the script's two parts, SpecSteps only), "ready"
  marker,     \* per page: document.body.classList.contains("light")
  hasBtn,     \* per page: document.getElementById("theme-toggle") !== null
  listeners,  \* per page: click listeners registered on the button
  error,      \* per page: the script raised an uncaught exception
  pref,       \* per page: last computed ThemePreference (initial / written)
  reads,      \* per page: getItem calls made in this document
  writes,     \* per page: setItem calls made in this document
  clicks,     \* per page: click events handled in this document
  runs,       \* per page: executions of the script in this document
  loads,      \* per page: documents loaded so far
  trace,      \* per page: <<marker, storage>> snapshots before each click
  runSnap,    \* per page: snapshots taken after each run of the script
  prevEnd,    \* per page: how the previous document of this page ended
  storage0,   \* the storage entry as it was before the first page load
  lastOp      \* the step taken last

pageVars == << pc, marker, hasBtn, listeners, error, pref, reads, writes,
               clicks, runs, loads, trace, runSnap, prevEnd >>
vars == << storage, os, pc, marker, hasBtn, listeners, error, pref, reads,
           writes, clicks, runs, loads, trace, runSnap, prevEnd, storage0,
           lastOp >>

\* ------------------------------------------------------- the script's code

\* variant: a missing matchMedia counts as a light preference
PrefersLightUnlessDark(sig) == sig # "dark"

\* line 3: window.matchMedia && window.matchMedia("...").matches, as a truth
\* value (undefined when matchMedia is missing)
PrefersLight(sig) == IF sig = "unavailable" THEN FALSE ELSE sig = "light"

\* JS truthiness of a getItem result: null and "" are falsy
Truthy(stored) == stored # None /\ stored # Some("")

\* variant: the OS signal is consulted before the stored value
InitialThemeOsFirst(stored, prefersLight) ==
  IF prefersLight THEN "light"
  ELSE IF Truthy(stored) THEN stored[1] ELSE "dark"

\* variant: the stored value is never consulted
InitialThemeOsOnly(stored, prefersLight) ==
  IF prefersLight THEN "light" ELSE "dark"

\* line 4: localStorage.getItem(key) || (prefersLight ? "light" : "dark")
InitialTheme(stored, prefersLight) ==
  IF Truthy(stored) THEN stored[1]
  ELSE IF prefersLight THEN "light" ELSE "dark"

\* variant: every theme other than "dark" adds the class
ApplyInitialNotDark(m, initial) == IF initial # "dark" THEN TRUE ELSE m

\* variant: classList.toggle in place of classList.add
ApplyInitialToggle(m, initial) == IF initial = "light" THEN ~m ELSE m

\* line 5: if(initial === "light") document.body.classList.add("light")
ApplyInitial(m, initial) == IF initial = "light" THEN TRUE ELSE m

\* variant: the early return on a missing button is left out, so
\* addEventListener is called on null and throws
BindToggleNoGuard(btn, n) ==
  IF ~btn THEN [listeners |-> n, error |-> TRUE]
  ELSE [listeners |-> n + 1, error |-> FALSE]

\* lines 7-9: if(!btn) return; btn.addEventListener("click", ...)
BindToggle(btn, n) ==
  IF ~btn THEN [listeners |-> n, error |-> FALSE]
  ELSE [listeners |-> n + 1, error |-> FALSE]

\* variant: classList.toggle("light", true), which only ever adds the class
ToggleForceOn(m) == TRUE

\* classList.toggle("light"): the class's presence afterwards, also returned
Toggle(m) == ~m

\* variant: the stored string is the opposite of the class's state
HandlerInverted(st) ==
  LET isLight == Toggle(st.marker)
  IN  [marker  |-> isLight,
       storage |-> Some(IF isLight THEN "dark" ELSE "light"),
       pref    |-> IF isLight THEN "dark" ELSE "light",
       writes  |-> st.writes + 1]

\* variant: classList.add in place of classList.toggle
HandlerAdd(st) ==
  [marker  |-> TRUE,
   storage |-> Some("light"),
   pref    |-> "light",
   writes  |-> st.writes + 1]

\* variant: the dark theme is stored as the empty string
HandlerEmptyDark(st) ==
  LET isLight == Toggle(st.marker)
  IN  [marker  |-> isLight,
       storage |-> Some(IF isLight THEN "light" ELSE ""),
       pref    |-> IF isLight THEN "light" ELSE "",
       writes  |-> st.writes + 1]

\* variant: only the light theme is persisted
HandlerLightOnly(st) ==
  LET isLight == Toggle(st.marker)
  IN  [marker  |-> isLight,
       storage |-> IF isLight THEN Some("light") ELSE st.storage,
       pref    |-> IF isLight THEN "light" ELSE "dark",
       writes  |-> IF isLight THEN st.writes + 1 ELSE st.writes]

\* variant: the stored theme is flipped from the stored value rather than
\* derived from the class
HandlerFlipsStored(st) ==
  LET isLight == Toggle(st.marker)
      next    == IF st.storage = Some("light") THEN "dark" ELSE "light"
  IN  [marker  |-> isLight,
       storage |-> Some(next),
       pref    |-> next,
       writes  |-> st.writes + 1]

\* lines 10-11: one invocation of the click listener
Handler(st) ==
  LET isLight == Toggle(st.marker)
  IN  [marker  |-> isLight,
       storage |-> Some(IF isLight THEN "light" ELSE "dark"),
       pref    |-> IF isLight THEN "light" ELSE "dark",
       writes  |-> st.writes + 1]

\* dispatch of one click event: every registered listener runs, in order
RECURSIVE RunListeners(_, _)
RunListeners(n, st) == IF n = 0 THEN st ELSE RunListeners(n - 1, Handler(st))

\* ------------------------------------------------------------------- Init
Init ==
  /\ storage \in StorageValues
  /\ storage0 = storage
  /\ os \in OsSignals
  /\ pc = [p \in Pages |-> "closed"]
  /\ marker = [p \in Pages |-> FALSE]
  /\ hasBtn = [p \in Pages |-> FALSE]
  /\ listeners = [p \in Pages |-> 0]
  /\ error = [p \in Pages |-> FALSE]
  /\ pref = [p \in Pages |-> "unset"]
  /\ reads = [p \in Pages |-> 0]
  /\ writes = [p \in Pages |-> 0]
  /\ clicks = [p \in Pages |-> 0]
  /\ runs = [p \in Pages |-> 0]
  /\ loads = [p \in Pages |-> 0]
  /\ trace = [p \in Pages |-> << >>]
  /\ runSnap = [p \in Pages |-> << >>]
  /\ prevEnd = [p \in Pages |-> [loaded |-> FALSE, marker |-> FALSE, clicks |-> 0]]
  /\ lastOp = [op |-> "start", page |-> "none"]

\* ---------------------------------------------------------------- actions

\* The browser loads (or reloads) a page: a new document whose body carries
\* no "light" class and whose button has no listener; the page may or may
\* not contain #theme-toggle.
LoadPage(p) ==
  /\ loads[p] < MaxLoads
  /\ \E b \in BOOLEAN : hasBtn' = [hasBtn EXCEPT ![p] = b]
  /\ prevEnd' = [prevEnd EXCEPT ![p] =
                   [loaded |-> pc[p] = "ready", marker |-> marker[p],
                    clicks |-> clicks[p]]]
  /\ pc' = [pc EXCEPT ![p] = "loading"]
  /\ marker' = [marker EXCEPT ![p] = FALSE]
  /\ listeners' = [listeners EXCEPT ![p] = 0]
  /\ error' = [error EXCEPT ![p] = FALSE]
  /\ pref' = [pref EXCEPT ![p] = "unset"]
  /\ reads' = [reads EXCEPT ![p] = 0]
  /\ writes' = [writes EXCEPT ![p] = 0]
  /\ clicks' = [clicks EXCEPT ![p] = 0]
  /\ runs' = [runs EXCEPT ![p] = 0]
  /\ loads' = [loads EXCEPT ![p] = loads[p] + 1]
  /\ trace' = [trace EXCEPT ![p] = << >>]
  /\ runSnap' = [runSnap EXCEPT ![p] = << >>]
  /\ lastOp' = [op |-> "load", page |-> p]
  /\ UNCHANGED << storage, os, storage0 >>

\* variant: the script also stores the theme it resolved
IIFEPersisting(p) ==
  LET stored  == storage
      initial == InitialTheme(stored, PrefersLight(os))
      m       == ApplyInitial(marker[p], initial)
      bound   == BindToggle(hasBtn[p], listeners[p])
  IN  /\ reads' = [reads EXCEPT ![p] = reads[p] + 1]
      /\ storage' = Some(initial)
      /\ writes' = [writes EXCEPT ![p] = writes[p] + 1]
      /\ pref' = [pref EXCEPT ![p] = initial]
      /\ marker' = [marker EXCEPT ![p] = m]
      /\ listeners' = [listeners EXCEPT ![p] = bound.listeners]
      /\ error' = [error EXCEPT ![p] = error[p] \/ bound.error]
      /\ pc' = [pc EXCEPT ![p] = "ready"]
      /\ runs' = [runs EXCEPT ![p] = runs[p] + 1]
      /\ runSnap' = [runSnap EXCEPT ![p] =
                       Append(runSnap[p],
                              [marker |-> m, storage |-> stored, os |-> os,
                               clicks |-> clicks[p]])]
      /\ lastOp' = [op |-> "init", page |-> p]
      /\ UNCHANGED << os, hasBtn, clicks, loads, trace, prevEnd, storage0 >>

\* lines 1-13: one execution of the IIFE in page p's document
IIFE(p) ==
  LET stored  == storage
      initial == InitialTheme(stored, PrefersLight(os))
      m       == ApplyInitial(marker[p], initial)
      bound   == BindToggle(hasBtn[p], listeners[p])
  IN  /\ reads' = [reads EXCEPT ![p] = reads[p] + 1]
      /\ pref' = [pref EXCEPT ![p] = initial]
      /\ marker' = [marker EXCEPT ![p] = m]
      /\ listeners' = [listeners EXCEPT ![p] = bound.listeners]
      /\ error' = [error EXCEPT ![p] = error[p] \/ bound.error]
      /\ pc' = [pc EXCEPT ![p] = "ready"]
      /\ runs' = [runs EXCEPT ![p] = runs[p] + 1]
      /\ runSnap' = [runSnap EXCEPT ![p] =
                       Append(runSnap[p],
                              [marker |-> m, storage |-> stored, os |-> os,
                               clicks |-> clicks[p]])]
      /\ lastOp' = [op |-> "init", page |-> p]
      /\ UNCHANGED << storage, os, hasBtn, writes, clicks, loads, trace,
                      prevEnd, storage0 >>

\* the script runs once while the page loads
RunScript(p) ==
  /\ pc[p] = "loading"
  /\ IIFE(p)

\* the script is executed again in the same document
ReRunScript(p) ==
  /\ pc[p] = "ready"
  /\ runs[p] < MaxRuns
  /\ IIFE(p)

\* lines 9-12: the user activates the button after the listener is bound
Click(p) ==
  /\ pc[p] = "ready"
  /\ hasBtn[p]
  /\ listeners[p] > 0
  /\ clicks[p] < MaxClicks
  /\ LET res == RunListeners(listeners[p],
                             [marker |-> marker[p], storage |-> storage,
                              pref |-> pref[p], writes |-> writes[p]])
     IN  /\ marker' = [marker EXCEPT ![p] = res.marker]
         /\ storage' = res.storage
         /\ pref' = [pref EXCEPT ![p] = res.pref]
         /\ writes' = [writes EXCEPT ![p] = res.writes]
  /\ clicks' = [clicks EXCEPT ![p] = clicks[p] + 1]
  /\ trace' = [trace EXCEPT ![p] =
                 Append(trace[p], [marker |-> marker[p], storage |-> storage])]
  /\ lastOp' = [op |-> "click", page |-> p]
  /\ UNCHANGED << os, pc, hasBtn, listeners, error, reads, runs, loads,
                  runSnap, prevEnd, storage0 >>

\* the user activates the button before the script has run: no listener is
\* registered yet, so the event is dispatched to nobody
ClickUnbound(p) ==
  /\ pc[p] = "loading"
  /\ hasBtn[p]
  /\ listeners[p] = 0
  /\ lastOp # [op |-> "unbound", page |-> p]
  /\ lastOp' = [op |-> "unbound", page |-> p]
  /\ UNCHANGED << storage, os, storage0, pageVars >>

\* the user switches the system colour scheme (where the browser reports it)
OsChange ==
  /\ os # "unavailable"
  /\ os' = IF os = "light" THEN "dark" ELSE "light"
  /\ lastOp' = [op |-> "os", page |-> "none"]
  /\ UNCHANGED << storage, storage0, pageVars >>

PageStep(p) ==
  \/ LoadPage(p)
  \/ RunScript(p)
  \/ Click(p)
  \/ ClickUnbound(p)

Next ==
  \/ \E p \in SinglePage : PageStep(p)
  \/ OsChange

Spec == Init /\ [][Next]_vars

\* one page whose document may execute the script more than once
NextRerun ==
  \/ \E p \in SinglePage : PageStep(p)
  \/ \E p \in SinglePage : ReRunScript(p)
  \/ OsChange

SpecRerun == Init /\ [][NextRerun]_vars

\* variant: the listener is registered before the initial theme is applied
ScriptOrderBindFirst == << "bind", "apply" >>

\* the order of the script's two parts: lines 2-5 resolve and apply the
\* initial theme, lines 7-12 look up the button and register the listener
ScriptOrder == << "apply", "bind" >>

\* the script executed one part at a time; pc "head" is the point between
\* the two parts
ScriptStep(p) ==
  /\ pc[p] \in {"loading", "head"}
  /\ LET i       == IF pc[p] = "loading" THEN 1 ELSE 2
         stmt    == ScriptOrder[i]
         stored  == storage
         initial == InitialTheme(stored, PrefersLight(os))
         m       == ApplyInitial(marker[p], initial)
         bound   == BindToggle(hasBtn[p], listeners[p])
     IN  /\ IF stmt = "apply"
            THEN /\ reads' = [reads EXCEPT ![p] = reads[p] + 1]
                 /\ pref' = [pref EXCEPT ![p] = initial]
                 /\ marker' = [marker EXCEPT ![p] = m]
                 /\ runSnap' = [runSnap EXCEPT ![p] =
                                  Append(runSnap[p],
                                         [marker |-> m, storage |-> stored,
                                          os |-> os, clicks |-> clicks[p]])]
                 /\ UNCHANGED << listeners, error >>
            ELSE /\ listeners' = [listeners EXCEPT ![p] = bound.listeners]
                 /\ error' = [error EXCEPT ![p] = error[p] \/ bound.error]
                 /\ UNCHANGED << reads, pref, marker, runSnap >>
         /\ pc' = [pc EXCEPT ![p] = IF i = 1 THEN "head" ELSE "ready"]
         /\ runs' = [runs EXCEPT ![p] = IF i = 2 THEN runs[p] + 1 ELSE runs[p]]
         /\ lastOp' = [op |-> IF i = 2 THEN "init" ELSE "head", page |-> p]
  /\ UNCHANGED << storage, os, hasBtn, writes, clicks, loads, trace, prevEnd,
                  storage0 >>

\* a click event arriving between the script's two parts: it is dispatched
\* to whatever listeners are registered at that point
ClickDuringScript(p) ==
  /\ pc[p] = "head"
  /\ hasBtn[p]
  /\ clicks[p] < MaxClicks
  /\ LET n   == listeners[p]
         res == RunListeners(n, [marker |-> marker[p], storage |-> storage,
                                 pref |-> pref[p], writes |-> writes[p]])
     IN  /\ marker' = [marker EXCEPT ![p] = res.marker]
         /\ storage' = res.storage
         /\ pref' = [pref EXCEPT ![p] = res.pref]
         /\ writes' = [writes EXCEPT ![p] = res.writes]
         /\ clicks' = [clicks EXCEPT ![p] = IF n > 0 THEN clicks[p] + 1 ELSE clicks[p]]
         /\ trace' = [trace EXCEPT ![p] =
                        IF n > 0
                        THEN Append(trace[p], [marker |-> marker[p], storage |-> storage])
                        ELSE trace[p]]
         /\ lastOp' = [op |-> IF n > 0 THEN "click" ELSE "unbound", page |-> p]
  /\ UNCHANGED << os, pc, hasBtn, listeners, error, reads, runs, loads,
                  runSnap, prevEnd, storage0 >>

\* one page whose script runs part by part, with click events arriving at
\* any point, also where the browser would not dispatch them
NextSteps ==
  \/ \E p \in SinglePage : LoadPage(p)
  \/ \E p \in SinglePage : ScriptStep(p)
  \/ \E p \in SinglePage : ClickDuringScript(p)
  \/ \E p \in SinglePage : Click(p)
  \/ \E p \in SinglePage : ClickUnbound(p)
  \/ OsChange

SpecSteps == Init /\ [][NextSteps]_vars

\* documents loaded so far and click events handled in the current
\* documents, over both pages
TotalLoads  == loads["A"] + loads["B"]
TotalClicks == clicks["A"] + clicks["B"]

\* two pages sharing the storage entry and the OS signal; the bounds on
\* loads and clicks are spent jointly by the two pages
NextTwo ==
  \/ \E p \in Pages : TotalLoads <= MaxLoads /\ LoadPage(p)
  \/ \E p \in Pages : RunScript(p)
  \/ \E p \in Pages : TotalClicks < MaxClicks /\ Click(p)
  \/ \E p \in Pages : ClickUnbound(p)
  \/ OsChange

SpecTwo == Init /\ [][NextTwo]_vars

\* ------------------------------------------------------------ type invariant
TypeOK ==
  /\ storage \in {None} \cup {Some(v) : v \in StoredStrings}
  /\ os \in OsSignals
  /\ pc \in [Pages -> {"closed", "loading", "head", "ready"}]
  /\ marker \in [Pages -> BOOLEAN]
  /\ hasBtn \in [Pages -> BOOLEAN]
  /\ error \in [Pages -> BOOLEAN]
  /\ \A p \in Pages : listeners[p] \in 0..MaxRuns /\ clicks[p] \in 0..MaxClicks
  /\ \A p \in Pages : loads[p] \in 0..MaxLoads /\ runs[p] \in 0..MaxRuns

\* ------------------------------------------------------------------ claims
JustRan(op, p) == lastOp = [op |-> op, page |-> p]
ThemeName(m)   == IF m THEN "light" ELSE "dark"
ProgramValues  == {None, Some("light"), Some("dark")}

\* C1: right after a click handler has run in a page, the stored value is
\* "light" exactly when that page's body carries the class "light", and
\* "dark" exactly when it does not.
C1_SyncAfterToggle ==
  \A p \in Pages :
    JustRan("click", p) =>
      /\ (storage = Some("light")) <=> marker[p]
      /\ (storage = Some("dark")) <=> ~marker[p]

C1_Witness ==
  /\ JustRan("click", "A")
  /\ clicks["A"] >= 2
  /\ storage0 = Some("blue")
  /\ ~marker["A"]
  /\ storage = Some("dark")

\* C2: when the script has just run in a fresh document and the stored value
\* is "light" or "dark", the class is present iff the stored value is
\* "light", whatever the OS signal is.
C2_StoredDecides ==
  \A p \in Pages :
    (JustRan("init", p) /\ runs[p] = 1 /\ storage \in {Some("light"), Some("dark")})
      => (marker[p] <=> storage = Some("light"))

C2_Witness ==
  /\ JustRan("init", "A")
  /\ storage = Some("dark")
  /\ os = "light"
  /\ ~marker["A"]

\* C3: when the script has just run in a fresh document and no value is
\* stored, the class is present if the OS signal reports light and absent
\* if it reports not-light or matchMedia is unavailable.
C3_OsFallback ==
  \A p \in Pages :
    (JustRan("init", p) /\ runs[p] = 1 /\ storage = None) =>
      /\ os = "light" => marker[p]
      /\ os \in {"dark", "unavailable"} => ~marker[p]

C3_Witness ==
  /\ JustRan("init", "A")
  /\ storage = None
  /\ os = "unavailable"
  /\ ~marker["A"]

\* C4 as claimed: after two consecutive toggle activations both the class and
\* the stored value are what they were before the first of the two, also
\* when nothing had been stored before (the storage started out absent,
\* "light" or "dark").
C4_RoundTripOriginal ==
  \A p \in Pages :
    (JustRan("click", p) /\ Len(trace[p]) >= 2 /\ storage0 \in ProgramValues) =>
      LET before == trace[p][Len(trace[p]) - 1]
      IN  marker[p] = before.marker /\ storage = before.storage

\* C4 as amended: two consecutive toggle activations return the class to what
\* it was before the first of the two and leave the stored value naming that
\* state; the stored value therefore returns to its earlier value whenever
\* that value already named the state (always so once an activation has
\* happened), while an entry that was absent is not restored to absent.
C4_RoundTrip ==
  \A p \in Pages :
    (JustRan("click", p) /\ Len(trace[p]) >= 2) =>
      LET n      == Len(trace[p])
          before == trace[p][n - 1]
      IN  /\ marker[p] = before.marker
          /\ storage = Some(ThemeName(before.marker))
          /\ n >= 3 => storage = before.storage
          /\ before.storage = None => storage # before.storage

C4_Witness ==
  /\ JustRan("click", "A")
  /\ Len(trace["A"]) = 2
  /\ trace["A"][1].storage = None
  /\ trace["A"][1].marker
  /\ marker["A"]
  /\ storage = Some("light")

\* C5: when a page is loaded again after a document in which at least one
\* toggle activation happened, the script initialises the new document to
\* the state the previous document ended in, whatever the OS signal is.
C5_PersistsAcrossLoads ==
  \A p \in Pages :
    (JustRan("init", p) /\ runs[p] = 1 /\ prevEnd[p].loaded /\ prevEnd[p].clicks > 0)
      => marker[p] = prevEnd[p].marker

C5_Witness ==
  /\ JustRan("init", "A")
  /\ prevEnd["A"].loaded
  /\ prevEnd["A"].clicks > 0
  /\ prevEnd["A"].marker
  /\ marker["A"]
  /\ os = "dark"

\* the class the script is to apply for a stored entry and an OS signal,
\* written out case by case
ExpectedMarker(stored, sig) ==
  \/ stored = Some("light")
  \/ stored \in {None, Some("")} /\ sig = "light"

\* C6: in a document without #theme-toggle the script applies the same
\* initial class as it would with the element, registers no listener and
\* raises no error, and afterwards no step of that page changes the class
\* or the stored value.
C6_MissingToggle ==
  /\ [](\A p \in Pages :
          (pc[p] = "ready" /\ ~hasBtn[p]) =>
            /\ listeners[p] = 0
            /\ ~error[p]
            /\ marker[p] <=> ExpectedMarker(runSnap[p][1].storage, runSnap[p][1].os))
  /\ [][\A p \in Pages :
          (pc[p] = "ready" /\ ~hasBtn[p] /\ loads'[p] = loads[p]) =>
            (marker'[p] = marker[p] /\ storage' = storage)]_vars

C6_Witness ==
  /\ pc["A"] = "ready"
  /\ ~hasBtn["A"]
  /\ marker["A"]
  /\ lastOp.op = "os"
  /\ listeners["A"] = 0

\* C7: once the script has run, the class is present iff the last computed
\* theme preference (the one the script resolved, then the one the latest
\* activation wrote) is "light".
C7_ClassMatchesPreference ==
  \A p \in Pages :
    pc[p] = "ready" => (marker[p] <=> pref[p] = "light")

C7_Witness ==
  /\ pc["A"] = "ready"
  /\ clicks["A"] >= 1
  /\ pref["A"] = "dark"
  /\ ~marker["A"]
  /\ storage0 = Some("light")

\* C8: when the script runs twice in a row in one document with the same
\* stored value, the same OS signal and no toggle activation in between,
\* the class after the second run is what it was after the first.
C8_InitIdempotent ==
  \A p \in Pages :
    Len(runSnap[p]) >= 2 =>
      LET n      == Len(runSnap[p])
          first  == runSnap[p][n - 1]
          second == runSnap[p][n]
      IN  (first.storage = second.storage /\ first.os = second.os
           /\ first.clicks = second.clicks)
            => second.marker = first.marker

C8_Witness ==
  /\ Len(runSnap["A"]) = 2
  /\ runSnap["A"][1].storage = runSnap["A"][2].storage
  /\ runSnap["A"][1].os = runSnap["A"][2].os
  /\ runSnap["A"][1].clicks = runSnap["A"][2].clicks
  /\ runSnap["A"][2].marker
  /\ JustRan("init", "A")

\* C9: every value the click handler writes is "light" or "dark", so when
\* the entry starts out absent, "light" or "dark" it is absent, "light" or
\* "dark" in every reachable state.
C9_StoredValueDomain ==
  /\ storage0 \in ProgramValues => storage \in ProgramValues
  /\ \A p \in Pages : JustRan("click", p) => storage \in {Some("light"), Some("dark")}

C9_Witness ==
  /\ storage0 = None
  /\ storage = Some("dark")
  /\ clicks["A"] = 1

\* C10 as claimed: within one document, the body's class and the stored
\* entry are changed by the click handler only.
C10_OnlyHandlerMutatesOriginal ==
  [][/\ storage' # storage => lastOp'.op = "click"
     /\ \A p \in Pages :
          (marker'[p] # marker[p] /\ loads'[p] = loads[p])
            => lastOp' = [op |-> "click", page |-> p]]_vars

\* C10 as amended: the stored entry is changed by the click handler only;
\* the body's class is changed by the click handler and by the script's
\* initial application, which can only add the class.
C10_OnlyHandlerMutates ==
  [][/\ storage' # storage => lastOp'.op = "click"
     /\ \A p \in Pages :
          (marker'[p] # marker[p] /\ loads'[p] = loads[p])
            => \/ lastOp' = [op |-> "click", page |-> p]
               \/ lastOp' = [op |-> "init", page |-> p] /\ marker'[p]]_vars

C10_Witness ==
  /\ JustRan("init", "A")
  /\ marker["A"]
  /\ storage = None
  /\ os = "light"
  /\ hasBtn["A"]


\* C11: in a document whose script has run, storage has been read exactly
\* once and written exactly once per toggle activation; the script's run
\* itself leaves the entry as it found it, so an absent entry stays absent
\* until the first activation.
C11_ReadOnceWritePerToggle ==
  \A p \in Pages :
    /\ pc[p] = "loading" => (reads[p] = 0 /\ writes[p] = 0)
    /\ pc[p] = "ready" =>
         /\ reads[p] = 1
         /\ writes[p] = clicks[p]
         /\ JustRan("init", p) => storage = runSnap[p][1].storage
         /\ (loads[p] = 1 /\ clicks[p] = 0 /\ storage0 = None) => storage = None

C11_Witness ==
  /\ pc["A"] = "ready"
  /\ reads["A"] = 1
  /\ clicks["A"] = 3
  /\ writes["A"] = 3
  /\ storage0 = None
  /\ lastOp.op = "click"


\* C12: once the script has run, a page's applied state (class present =
\* Light, absent = Dark) changes on a toggle activation and on nothing else,
\* and every activation changes it; so after n activations the state equals
\* the initial state iff n is even.
C12_TwoStateMachine ==
  /\ [](\A p \in Pages :
          pc[p] = "ready" =>
            ((marker[p] = runSnap[p][1].marker) <=> (clicks[p] % 2 = 0)))
  /\ [][\A p \in Pages :
          (pc[p] = "ready" /\ loads'[p] = loads[p]) =>
            ((marker'[p] # marker[p]) <=> (lastOp' = [op |-> "click", page |-> p]))]_vars

C12_Witness ==
  /\ pc["A"] = "ready"
  /\ clicks["A"] = 3
  /\ runSnap["A"][1].marker
  /\ ~marker["A"]
  /\ JustRan("click", "A")


\* the class a fresh document gets when the script runs with this stored
\* entry under OS signal sig
InitialMarkerUnder(stored, sig) ==
  ApplyInitial(FALSE, InitialTheme(stored, PrefersLight(sig)))

\* C13: whenever an entry is present in storage when the script runs, the
\* initial state it applies is the one it would apply under every other
\* value of the OS signal (light, not light, unavailable).
C13_OsIgnoredWhenStored ==
  \A p \in Pages :
    (JustRan("init", p) /\ runs[p] = 1 /\ storage # None) =>
      \A sig \in OsSignals : marker[p] = InitialMarkerUnder(storage, sig)

\* C14: the initial preference the script resolves equals the stored string
\* whenever an entry is present, the empty string and foreign strings
\* included; only for an absent entry do the OS signal and the default
\* "dark" decide.
C14_InitialIsStoredValue ==
  \A p \in Pages :
    (JustRan("init", p) /\ runs[p] = 1) =>
      /\ storage # None => pref[p] = storage[1]
      /\ storage = None => pref[p] = (IF os = "light" THEN "light" ELSE "dark")


C16_LastHandlerWins ==
  /\ [](\A p \in Pages :
          JustRan("click", p) => storage = Some(ThemeName(marker[p])))
  /\ [][\A p \in Pages :
          lastOp' = [op |-> "click", page |-> p] =>
            \A q \in Pages \ {p} : marker'[q] = marker[q]]_vars
  /\ [][lastOp'.op # "click" => storage' = storage]_vars

C16_Witness ==
  /\ pc["A"] = "ready"
  /\ pc["B"] = "ready"
  /\ JustRan("click", "A")
  /\ clicks["B"] >= 1
  /\ marker["A"]
  /\ ~marker["B"]
  /\ storage = Some("light")
  /\ pref["B"] = "dark"

====
